---- MODULE Spec2Model ----
(***************************************************************************)
(* Model of the internet monitor of monitor.py: the debouncer              *)
(* (InternetMonitor.is_internet_down), the outage state machine and the    *)
(* notification queue (InternetMonitor.monitor, handle_outage,             *)
(* handle_recovery, queue_message, send_queued_messages), the notifier     *)
(* (NotificationService.send_notification) and the statistics counters.    *)
(*                                                                         *)
(* One action per statement group of the loop body of monitor(), so that a *)
(* KeyboardInterrupt, which Python delivers between any two statements,    *)
(* can be taken at every position of the loop.                             *)
(***************************************************************************)
EXTENDS Integers, Sequences, FiniteSets

\* ---------------------------------------------------------------- bounds
\* The loop of monitor() is infinite; the model stops starting new cycles
\* after MaxChecks of them.
MaxChecks == 4
\* Largest failure_threshold drawn for the configuration.
MaxThreshold == 2
\* Largest retry_delay / check_interval (seconds) drawn for the configuration.
MaxDelay == 1
\* Clock ticks per second: datetime.now() is finer than the one-second
\* resolution of strftime("%Y-%m-%d %H:%M:%S"). The monitor starts at any
\* tick of a second; time passes in the sleeps, a ping or a delivery takes
\* less than a tick.
TicksPerSecond == 2
\* Direct calls of handle_outage / handle_recovery made on one object, and
\* the latest clock value reached between such calls.
MaxCalls == 3
MaxClock == 3

VARIABLES
    failure_threshold,     \* Config.failure_threshold
    check_interval,        \* Config.check_interval
    retry_delay,           \* Config.retry_delay
    api_key,               \* TRUE iff Config.prowl_api_key is set (truthy)
    message_queue,         \* InternetMonitor.message_queue
    outage_start_time,     \* InternetMonitor.outage_start_time: <<>> is None, <<t>> a datetime
    was_connected,         \* InternetMonitor.was_connected
    total_checks,          \* InternetMonitor.total_checks
    total_failures,        \* InternetMonitor.total_failures
    pc,                    \* position of the control flow inside monitor()
    attempt,               \* loop variable of is_internet_down
    consecutive_failures,  \* local of is_internet_down
    result,                \* local of monitor(): not is_internet_down()
    clock,                 \* the wall clock read by datetime.now(), in ticks
    \* history variables (observations, never read by the program)
    probe_log,             \* the results of the ping calls of the current cycle, in order
    probe_raised,          \* TRUE iff os.system raised in a ping call of the current cycle
    sleeps,                \* retry_delay sleeps made in the current cycle
    verdicts,              \* the is_internet_down() results returned so far
    enqueued,              \* every queue_message call, in order: the item, the cycle,
                           \*   the clock and was_connected at the call
    handed,                \* every send_notification call, in order: the item, whether an
                           \*   HTTP request was made, the value returned
    drain_start,           \* queue and Len(handed) when send_queued_messages was last entered
    returned,              \* the last direct call of send_notification: its inputs and result
    stopped_at             \* pc at which the loop was left (KeyboardInterrupt or exception)

vars == <<failure_threshold, check_interval, retry_delay, api_key, message_queue,
          outage_start_time, was_connected, total_checks, total_failures, pc,
          attempt, consecutive_failures, result, clock, probe_log, probe_raised,
          sleeps,
          verdicts, enqueued, handed, drain_start, returned, stopped_at>>

config == <<failure_threshold, check_interval, retry_delay, api_key>>
counters == <<total_checks, total_failures>>
debounce == <<attempt, consecutive_failures, probe_log, probe_raised, sleeps>>
history == <<verdicts, enqueued, handed, drain_start, returned>>

\* ------------------------------------------------------------ configuration
\* Config is a plain dataclass: every int is accepted, none is validated.
Thresholds == 0..MaxThreshold
Delays == (0 - 1)..MaxDelay

\* ------------------------------------------------------------ collaborators
\* os.system("ping ...") returns 0, returns non-zero, or raises.
PingOutcomes == {"zero", "nonzero", "raises"}

\* Mutant: an exception of os.system counts as a successful ping.
ping_fault_is_success(outcome) == outcome # "nonzero"

\* InternetMonitor.ping: True iff os.system returned 0; an exception is
\* caught and turned into False.
ping(outcome) == outcome = "zero"

\* What requests.post can do.
Responses == {"200", "500", "timeout", "request_exception", "exception"}

\* Mutant: the check of the API key (lines 126-128) is missing.
send_notification_nokeycheck(key, response) ==
    [http |-> TRUE, ok |-> response = "200", raised |-> FALSE]

\* Mutant: the catch-all handler of lines 152-154 is missing.
send_notification_uncaught(key, response) ==
    [http |-> key, ok |-> key /\ response = "200",
     raised |-> key /\ response = "exception"]

\* NotificationService.send_notification: without an API key no request is
\* made and False is returned; otherwise True iff the status is 200; every
\* exception of requests.post is caught and turned into False, so none is
\* raised to the caller.
send_notification(key, response) ==
    [http |-> key, ok |-> key /\ response = "200", raised |-> FALSE]

\* ------------------------------------------------------------------ messages
\* datetime.strftime("%Y-%m-%d %H:%M:%S"): the time cut to whole seconds.
strftime(t) == t \div TicksPerSecond

\* f"Internet connection lost! - {current_time}"
LostMessage(t) == [kind |-> "lost", at |-> strftime(t), duration |-> <<>>]

\* f"Internet connection restored! - {current_time}[ - outage duration: {d}]";
\* str(duration) is never empty, so a duration that exists is always included.
RestoredMessage(t, d) == [kind |-> "restored", at |-> strftime(t), duration |-> d]

\* Mutant: a missing start time counts as an outage of length zero.
get_outage_duration_zero(start, now) ==
    IF start # <<>> THEN <<now - start[1]>> ELSE <<0>>

\* Mutant: the duration is never computed.
get_outage_duration_none(start, now) == <<>>

\* InternetMonitor.get_outage_duration: None without a start time, else
\* now - outage_start_time (str(timedelta) keeps the full resolution).
get_outage_duration(start, now) ==
    IF start # <<>> THEN <<now - start[1]>> ELSE <<>>

\* A queue item: the message string, tagged with the number of the
\* queue_message call that produced it (two calls can produce equal strings).
Item(text) == [n |-> Len(enqueued) + 1, text |-> text]

\* The entry of the enqueued log for a queue_message call made now.
LogEntry(text) ==
    [item |-> Item(text), cycle |-> total_checks, now |-> clock,
     connected |-> was_connected]

\* Mutant: insert at the head.
queue_message_front(q, m) == <<m>> \o q

\* InternetMonitor.queue_message: append at the tail.
queue_message(q, m) == Append(q, m)

\* Mutant: pop() instead of pop(0).
Pop_last(q) == [message |-> q[Len(q)], rest |-> SubSeq(q, 1, Len(q) - 1)]

\* message_queue.pop(0): the head is returned, the tail stays.
Pop(q) == [message |-> Head(q), rest |-> Tail(q)]

\* Mutant: a message whose delivery failed goes back to the tail.
AfterSend_retry(rest, message, sent) ==
    IF sent.ok THEN rest ELSE Append(rest, message)

\* Mutant: a message whose delivery failed stays at the head.
AfterSend_keep(rest, message, sent) ==
    IF sent.ok THEN rest ELSE <<message>> \o rest

\* send_queued_messages after send_notification returned: the value is
\* discarded, the popped message is not put back.
AfterSend(rest, message, sent) == rest

\* Mutant: retry_delay is slept after the last attempt too.
SleepBeforeRetry_always(att, threshold) == TRUE

\* is_internet_down line 211: sleep unless this was the last attempt.
SleepBeforeRetry(att, threshold) == att < threshold - 1

\* Mutant: the outage branch forgets the current state.
OutageDetected_anydown(res, connected) == ~res

\* monitor() line 294: a down verdict while connected.
OutageDetected(res, connected) == ~res /\ connected

\* Mutant: the recovery branch forgets the current state.
RecoveryDetected_anyup(res, connected) == res

\* monitor() line 297: a not-down verdict while disconnected.
RecoveryDetected(res, connected) == res /\ ~connected

\* No direct call of send_notification was made yet.
NoCall == [called |-> FALSE]

\* ---------------------------------------------------------------------- Init
\* InternetMonitor.__init__ followed by the entry of monitor().
Init ==
    /\ failure_threshold \in Thresholds
    /\ check_interval \in Delays
    /\ retry_delay \in Delays
    /\ api_key \in BOOLEAN
    /\ message_queue = <<>>
    /\ outage_start_time = <<>>
    /\ was_connected = TRUE
    /\ total_checks = 0
    /\ total_failures = 0
    /\ pc = "loop"
    /\ attempt = 0
    /\ consecutive_failures = 0
    /\ result = TRUE
    /\ clock \in 0..(TicksPerSecond - 1)
    /\ probe_log = <<>>
    /\ probe_raised = FALSE
    /\ sleeps = 0
    /\ verdicts = <<>>
    /\ enqueued = <<>>
    /\ handed = <<>>
    /\ drain_start = [queue |-> <<>>, handed |-> 0]
    /\ returned = NoCall
    /\ stopped_at = "none"

\* ------------------------------------------------------------------- actions
\* monitor() line 286 and the entry of is_internet_down (lines 202-204).
StartCycle ==
    /\ pc = "loop"
    /\ total_checks < MaxChecks
    /\ total_checks' = total_checks + 1
    /\ attempt' = 0
    /\ consecutive_failures' = 0
    /\ probe_log' = <<>>
    /\ probe_raised' = FALSE
    /\ sleeps' = 0
    /\ pc' = "debounce"
    /\ UNCHANGED <<config, message_queue, outage_start_time, was_connected,
                   total_failures, result, clock, history, stopped_at>>

\* Mutant: a successful ping does not end the loop of is_internet_down.
PingSucceeds_continue ==
    /\ pc = "debounce"
    /\ attempt < failure_threshold
    /\ \E o \in PingOutcomes :
        /\ ping(o)
        /\ probe_raised' = (probe_raised \/ o = "raises")
    /\ probe_log' = Append(probe_log, TRUE)
    /\ attempt' = attempt + 1
    /\ UNCHANGED <<config, message_queue, outage_start_time, was_connected,
                   counters, pc, consecutive_failures, result, clock, sleeps,
                   history, stopped_at>>

\* is_internet_down, one iteration of the for loop whose ping succeeds:
\* return False at once (line 214); monitor() line 287 negates it.
PingSucceeds ==
    /\ pc = "debounce"
    /\ attempt < failure_threshold
    /\ \E o \in PingOutcomes :
        /\ ping(o)
        /\ probe_raised' = (probe_raised \/ o = "raises")
    /\ probe_log' = Append(probe_log, TRUE)
    /\ result' = TRUE
    /\ verdicts' = Append(verdicts, FALSE)
    /\ pc' = "record"
    /\ UNCHANGED <<config, message_queue, outage_start_time, was_connected,
                   counters, attempt, consecutive_failures, clock, sleeps,
                   enqueued, handed, drain_start, returned, stopped_at>>

\* is_internet_down, one iteration whose ping fails (lines 207-212): count
\* the failure and sleep retry_delay unless this was the last attempt.
PingFails ==
    /\ pc = "debounce"
    /\ attempt < failure_threshold
    /\ \E o \in PingOutcomes :
        /\ ~ping(o)
        /\ probe_raised' = (probe_raised \/ o = "raises")
    /\ probe_log' = Append(probe_log, FALSE)
    /\ consecutive_failures' = consecutive_failures + 1
    /\ IF SleepBeforeRetry(attempt, failure_threshold)
         THEN /\ pc' = "retry_sleep"
              /\ attempt' = attempt
         ELSE /\ pc' = "debounce"
              /\ attempt' = attempt + 1
    /\ UNCHANGED <<config, message_queue, outage_start_time, was_connected,
                   counters, result, clock, sleeps, history, stopped_at>>

\* time.sleep(retry_delay), line 212: a negative delay raises ValueError,
\* which leaves monitor() through `except Exception` (lines 312-314).
RetrySleep ==
    /\ pc = "retry_sleep"
    /\ IF retry_delay < 0
         THEN /\ pc' = "crashed"
              /\ stopped_at' = pc
              /\ UNCHANGED <<attempt, clock, sleeps>>
         ELSE /\ pc' = "debounce"
              /\ attempt' = attempt + 1
              /\ clock' = clock + retry_delay * TicksPerSecond
              /\ sleeps' = sleeps + 1
              /\ UNCHANGED stopped_at
    /\ UNCHANGED <<config, message_queue, outage_start_time, was_connected,
                   counters, consecutive_failures, result, probe_log, probe_raised,
                   history>>

\* is_internet_down after the for loop (lines 216-217): every attempt failed,
\* or range(failure_threshold) was empty; return True.
ThresholdBreached ==
    /\ pc = "debounce"
    /\ attempt >= failure_threshold
    /\ result' = FALSE
    /\ verdicts' = Append(verdicts, TRUE)
    /\ pc' = "record"
    /\ UNCHANGED <<config, message_queue, outage_start_time, was_connected,
                   counters, debounce, clock, enqueued, handed, drain_start, returned,
                   stopped_at>>

\* Mutant: every cycle is counted as a failure.
RecordResult_countall ==
    /\ pc = "record"
    /\ total_failures' = total_failures + 1
    /\ pc' = "transition"
    /\ UNCHANGED <<config, message_queue, outage_start_time, was_connected,
                   total_checks, debounce, result, clock, history, stopped_at>>

\* Mutant: a down verdict counts one failure per failed ping.
RecordResult_perping ==
    /\ pc = "record"
    /\ total_failures' = IF ~result THEN total_failures + consecutive_failures
                                    ELSE total_failures
    /\ pc' = "transition"
    /\ UNCHANGED <<config, message_queue, outage_start_time, was_connected,
                   total_checks, debounce, result, clock, history, stopped_at>>

\* monitor() lines 289-292: count the failure; log_result changes no state.
RecordResult ==
    /\ pc = "record"
    /\ total_failures' = IF ~result THEN total_failures + 1 ELSE total_failures
    /\ pc' = "transition"
    /\ UNCHANGED <<config, message_queue, outage_start_time, was_connected,
                   total_checks, debounce, result, clock, history, stopped_at>>

\* monitor() lines 294-295 with handle_outage (lines 247-251).
HandleOutage ==
    /\ pc = "transition"
    /\ OutageDetected(result, was_connected)
    /\ outage_start_time' = <<clock>>
    /\ message_queue' = queue_message(message_queue, Item(LostMessage(clock)))
    /\ enqueued' = Append(enqueued, LogEntry(LostMessage(clock)))
    /\ pc' = "set_disconnected"
    /\ UNCHANGED <<config, was_connected, counters, debounce, result, clock,
                   verdicts, handed, drain_start, returned, stopped_at>>

\* monitor() line 296.
SetDisconnected ==
    /\ pc = "set_disconnected"
    /\ was_connected' = FALSE
    /\ pc' = "sleep"
    /\ UNCHANGED <<config, message_queue, outage_start_time, counters,
                   debounce, result, clock, history, stopped_at>>

\* Mutant: handle_recovery does not call send_queued_messages.
HandleRecovery_nodrain ==
    /\ pc = "transition"
    /\ ~OutageDetected(result, was_connected)
    /\ RecoveryDetected(result, was_connected)
    /\ LET m == RestoredMessage(clock, get_outage_duration(outage_start_time, clock))
       IN  /\ message_queue' = queue_message(message_queue, Item(m))
           /\ enqueued' = Append(enqueued, LogEntry(m))
    /\ outage_start_time' = <<>>
    /\ pc' = "set_connected"
    /\ UNCHANGED <<config, was_connected, counters, debounce, result, clock,
                   verdicts, handed, drain_start, returned, stopped_at>>

\* monitor() lines 297-298 with handle_recovery up to the call of
\* send_queued_messages (lines 255-266).
HandleRecovery ==
    /\ pc = "transition"
    /\ ~OutageDetected(result, was_connected)
    /\ RecoveryDetected(result, was_connected)
    /\ LET m == RestoredMessage(clock, get_outage_duration(outage_start_time, clock))
       IN  /\ message_queue' = queue_message(message_queue, Item(m))
           /\ enqueued' = Append(enqueued, LogEntry(m))
           /\ drain_start' = [queue |-> queue_message(message_queue, Item(m)),
                              handed |-> Len(handed)]
    /\ pc' = "drain"
    /\ UNCHANGED <<config, outage_start_time, was_connected, counters,
                   debounce, result, clock, verdicts, handed, returned,
                   stopped_at>>

\* send_queued_messages, one iteration of the while loop (lines 235-237).
\* An exception raised by send_notification would leave the loop with the
\* message already popped and end monitor() through `except Exception`.
DrainSend ==
    /\ pc = "drain"
    /\ message_queue # <<>>
    /\ \E r \in Responses :
        LET popped == Pop(message_queue)
            sent == send_notification(api_key, r)
        IN  /\ handed' = Append(handed, [item |-> popped.message,
                                          http |-> sent.http, ok |-> sent.ok])
            /\ IF sent.raised
                 THEN /\ message_queue' = popped.rest
                      /\ pc' = "crashed"
                      /\ stopped_at' = pc
                 ELSE /\ message_queue' = AfterSend(popped.rest, popped.message, sent)
                      /\ UNCHANGED <<pc, stopped_at>>
    /\ UNCHANGED <<config, outage_start_time, was_connected, counters,
                   debounce, result, clock, verdicts, enqueued, drain_start,
                   returned>>

\* Mutant: send_queued_messages tests the queue with `if`, not `while`: it
\* returns after one message.
DrainReturns_afterone ==
    /\ pc = "drain"
    /\ message_queue = <<>> \/ Len(handed) > drain_start.handed
    /\ outage_start_time' = <<>>
    /\ pc' = "set_connected"
    /\ UNCHANGED <<config, message_queue, was_connected, counters, debounce,
                   result, clock, history, stopped_at>>

\* Mutant: handle_recovery forgets to clear the outage start.
DrainReturns_keepstart ==
    /\ pc = "drain"
    /\ message_queue = <<>>
    /\ pc' = "set_connected"
    /\ UNCHANGED <<config, message_queue, outage_start_time, was_connected,
                   counters, debounce, result, clock, history, stopped_at>>

\* send_queued_messages returns (the queue is empty) and handle_recovery
\* clears the outage start (line 267).
DrainReturns ==
    /\ pc = "drain"
    /\ message_queue = <<>>
    /\ outage_start_time' = <<>>
    /\ pc' = "set_connected"
    /\ UNCHANGED <<config, message_queue, was_connected, counters, debounce,
                   result, clock, history, stopped_at>>

\* monitor() line 299.
SetConnected ==
    /\ pc = "set_connected"
    /\ was_connected' = TRUE
    /\ pc' = "sleep"
    /\ UNCHANGED <<config, message_queue, outage_start_time, counters,
                   debounce, result, clock, history, stopped_at>>

\* monitor() lines 294-299 when neither branch is taken.
NoTransition ==
    /\ pc = "transition"
    /\ ~OutageDetected(result, was_connected)
    /\ ~RecoveryDetected(result, was_connected)
    /\ pc' = "sleep"
    /\ UNCHANGED <<config, message_queue, outage_start_time, was_connected,
                   counters, debounce, result, clock, history, stopped_at>>

\* Mutant: monitor() returns after the first pass of the loop body.
Sleep_once ==
    /\ pc = "sleep"
    /\ pc' = "returned"
    /\ UNCHANGED <<config, message_queue, outage_start_time, was_connected,
                   counters, debounce, result, clock, history, stopped_at>>

\* monitor() lines 302-306: time.sleep(check_interval); a negative interval
\* raises ValueError, which leaves monitor() through `except Exception`.
Sleep ==
    /\ pc = "sleep"
    /\ IF check_interval < 0
         THEN /\ pc' = "crashed"
              /\ stopped_at' = pc
              /\ UNCHANGED clock
         ELSE /\ pc' = "loop"
              /\ clock' = clock + check_interval * TicksPerSecond
              /\ UNCHANGED stopped_at
    /\ UNCHANGED <<config, message_queue, outage_start_time, was_connected,
                   counters, debounce, result, history>>

\* The positions of the loop body of monitor().
LoopPositions == {"loop", "debounce", "retry_sleep", "record", "transition",
                  "set_disconnected", "drain", "set_connected", "sleep"}

\* Mutant: the KeyboardInterrupt handler sends what is left in the queue.
Interrupt_flush ==
    /\ pc \in LoopPositions
    /\ pc' = "stopped"
    /\ stopped_at' = pc
    /\ handed' = handed \o [j \in 1..Len(message_queue) |->
                              [item |-> message_queue[j], http |-> api_key,
                               ok |-> api_key]]
    /\ message_queue' = <<>>
    /\ UNCHANGED <<config, outage_start_time, was_connected, counters,
                   debounce, result, clock, verdicts, enqueued, drain_start,
                   returned>>

\* KeyboardInterrupt (lines 308-311): raised between any two statements of
\* the try block; the handler only logs the statistics.
Interrupt ==
    /\ pc \in LoopPositions
    /\ pc' = "stopped"
    /\ stopped_at' = pc
    /\ UNCHANGED <<config, message_queue, outage_start_time, was_connected,
                   counters, debounce, result, clock, history>>

Next ==
    \/ StartCycle
    \/ PingSucceeds
    \/ PingFails
    \/ RetrySleep
    \/ ThresholdBreached
    \/ RecordResult
    \/ HandleOutage
    \/ SetDisconnected
    \/ HandleRecovery
    \/ DrainSend
    \/ DrainReturns
    \/ SetConnected
    \/ NoTransition
    \/ Sleep
    \/ Interrupt

Spec == Init /\ [][Next]_vars

\* A step of the program itself (every step but the KeyboardInterrupt).
ProgramStep == Next /\ pc' # "stopped"

\* The interpreter always runs the next statement: os.system, requests.post
\* (timeout=10) and time.sleep return. The KeyboardInterrupt may or may not
\* come.
FairSpec == Spec /\ WF_vars(ProgramStep)

\* ------------------------------------------------------------ direct calls
\* The methods of one InternetMonitor object called directly, in any order,
\* as the unit tests do (monitor_tests.py): handle_outage, handle_recovery
\* and notifier.send_notification. "set_connected" is the position at which
\* handle_recovery has returned to its caller.
CallPositions == {"call", "set_connected"}

\* InternetMonitor.__init__ with a valid configuration; monitor() is not run.
CallInit ==
    /\ failure_threshold = MaxThreshold
    /\ check_interval = MaxDelay
    /\ retry_delay = MaxDelay
    /\ api_key \in BOOLEAN
    /\ message_queue = <<>>
    /\ outage_start_time = <<>>
    /\ was_connected = TRUE
    /\ total_checks = 0
    /\ total_failures = 0
    /\ pc = "call"
    /\ attempt = 0
    /\ consecutive_failures = 0
    /\ result = TRUE
    /\ clock \in 0..(TicksPerSecond - 1)
    /\ probe_log = <<>>
    /\ probe_raised = FALSE
    /\ sleeps = 0
    /\ verdicts = <<>>
    /\ enqueued = <<>>
    /\ handed = <<>>
    /\ drain_start = [queue |-> <<>>, handed |-> 0]
    /\ returned = NoCall
    /\ stopped_at = "none"

\* Time passes between two calls.
TimePasses ==
    /\ pc \in CallPositions
    /\ clock < MaxClock
    /\ clock' = clock + 1
    /\ UNCHANGED <<config, message_queue, outage_start_time, was_connected,
                   counters, pc, debounce, result, history, stopped_at>>

\* A direct call of handle_outage (lines 247-251).
CallHandleOutage ==
    /\ pc \in CallPositions
    /\ Len(enqueued) < MaxCalls
    /\ outage_start_time' = <<clock>>
    /\ message_queue' = queue_message(message_queue, Item(LostMessage(clock)))
    /\ enqueued' = Append(enqueued, LogEntry(LostMessage(clock)))
    /\ pc' = "call"
    /\ UNCHANGED <<config, was_connected, counters, debounce, result, clock,
                   verdicts, handed, drain_start, returned, stopped_at>>

\* A direct call of handle_recovery, up to the call of send_queued_messages
\* (lines 255-266); DrainSend and DrainReturns are the rest of it.
CallHandleRecovery ==
    /\ pc \in CallPositions
    /\ Len(enqueued) < MaxCalls
    /\ LET m == RestoredMessage(clock, get_outage_duration(outage_start_time, clock))
       IN  /\ message_queue' = queue_message(message_queue, Item(m))
           /\ enqueued' = Append(enqueued, LogEntry(m))
           /\ drain_start' = [queue |-> queue_message(message_queue, Item(m)),
                              handed |-> Len(handed)]
    /\ pc' = "drain"
    /\ UNCHANGED <<config, outage_start_time, was_connected, counters,
                   debounce, result, clock, verdicts, handed, returned,
                   stopped_at>>

\* A direct call of notifier.send_notification (lines 115-154); the caller
\* keeps what it passed and what came back. Without a request there is no
\* response.
CallSendNotification ==
    /\ pc \in CallPositions
    /\ \E r \in Responses :
        LET sent == send_notification(api_key, r)
        IN  /\ returned' = [called |-> TRUE,
                            key |-> api_key,
                            response |-> IF sent.http THEN r ELSE "no_request",
                            http |-> sent.http,
                            ok |-> sent.ok,
                            raised |-> sent.raised]
            /\ IF sent.raised
                 THEN /\ pc' = "crashed"
                      /\ stopped_at' = pc
                 ELSE /\ pc' = "call"
                      /\ UNCHANGED stopped_at
    /\ UNCHANGED <<config, message_queue, outage_start_time, was_connected,
                   counters, debounce, result, clock, verdicts, enqueued,
                   handed, drain_start>>

CallNext ==
    \/ TimePasses
    \/ CallHandleOutage
    \/ CallHandleRecovery
    \/ DrainSend
    \/ DrainReturns
    \/ CallSendNotification

CallSpec == CallInit /\ [][CallNext]_vars

\* Mutant: the rate of the failures instead of the successes.
get_statistics_failure_rate ==
    [total_checks |-> total_checks,
     total_failures |-> total_failures,
     success_rate |->
        IF total_checks > 0
          THEN [num |-> total_failures * 100, den |-> total_checks]
          ELSE [num |-> 0, den |-> 1],
     current_status |-> IF was_connected THEN "Connected" ELSE "Disconnected"]

\* InternetMonitor.get_statistics (lines 269-276). success_rate is the float
\* (total_checks - total_failures) / total_checks * 100, kept here as the
\* fraction num / den; it is 0 when total_checks is 0.
get_statistics ==
    [total_checks |-> total_checks,
     total_failures |-> total_failures,
     success_rate |->
        IF total_checks > 0
          THEN [num |-> (total_checks - total_failures) * 100, den |-> total_checks]
          ELSE [num |-> 0, den |-> 1],
     current_status |-> IF was_connected THEN "Connected" ELSE "Disconnected"]

\* ------------------------------------------------------------ observations
\* The position of the loop, also after it was left.
Pos == IF pc \in {"stopped", "crashed"} THEN stopped_at ELSE pc

\* The positions between the transition steps of two cycles.
BetweenCycles == {"sleep", "loop"}

\* The number of verdicts whose transition (lines 294-299) has started.
Applied ==
    IF Pos \in {"record", "transition"} THEN Len(verdicts) - 1 ELSE Len(verdicts)

Kind(i) == enqueued[i].item.text.kind
EnqueuedOf(k) == {i \in 1..Len(enqueued) : Kind(i) = k}

\* The cycles, among the first n, whose down verdict follows a not-down one
\* (or starts the run), and those whose not-down verdict follows a down one.
OutageStarts(n) == {j \in 1..n : verdicts[j] /\ (j = 1 \/ ~verdicts[j - 1])}
Recoveries(n) == {j \in 2..n : ~verdicts[j] /\ verdicts[j - 1]}

\* A step that calls queue_message with a message of kind k.
Enqueues(k) ==
    /\ Len(enqueued') = Len(enqueued) + 1
    /\ enqueued'[Len(enqueued')].item.text.kind = k

\* -------------------------------------------------------------------- claims
\* C1 (no flap spam): a "lost" message is enqueued only by the transition of
\* a down verdict received while connected; the transition of a down verdict
\* received while disconnected enqueues nothing; so the "lost" messages are
\* exactly one per run of down verdicts, e.g. one for down, down, down.
C1_NoFlapSpam ==
    /\ [][Enqueues("lost") => pc = "transition" /\ ~result /\ was_connected]_vars
    /\ [][pc = "transition" /\ ~result /\ ~was_connected
            => enqueued' = enqueued /\ message_queue' = message_queue]_vars
    /\ [](/\ \A i \in EnqueuedOf("lost") :
                verdicts[enqueued[i].cycle] /\ enqueued[i].connected
          /\ {enqueued[i].cycle : i \in EnqueuedOf("lost")} = OutageStarts(Applied)
          /\ Cardinality(EnqueuedOf("lost")) = Cardinality(OutageStarts(Applied)))

C1_Witness ==
    /\ verdicts = <<TRUE, TRUE, TRUE>>
    /\ pc = "sleep"
    /\ ~was_connected
    /\ Cardinality(EnqueuedOf("lost")) = 1
    /\ enqueued[1].cycle = 1

\* C2 (idempotent recovery): a "restored" message is enqueued only by the
\* transition of a not-down verdict received while disconnected; a not-down
\* verdict received while connected enqueues nothing and starts no drain; so
\* down, up, up, up enqueues exactly one "restored" message.
C2_IdempotentRecovery ==
    /\ [][Enqueues("restored") => pc = "transition" /\ result /\ ~was_connected]_vars
    /\ [][pc = "transition" /\ result /\ was_connected
            => /\ enqueued' = enqueued
               /\ message_queue' = message_queue
               /\ handed' = handed
               /\ pc' # "drain"]_vars
    /\ [](/\ {enqueued[i].cycle : i \in EnqueuedOf("restored")} = Recoveries(Applied)
          /\ Cardinality(EnqueuedOf("restored")) = Cardinality(Recoveries(Applied))
          /\ (verdicts = <<TRUE, FALSE, FALSE, FALSE>> /\ Applied = 4
                => Cardinality(EnqueuedOf("restored")) = 1))

C2_Witness ==
    /\ verdicts = <<TRUE, FALSE, FALSE, FALSE>>
    /\ pc = "sleep"
    /\ was_connected
    /\ Cardinality(EnqueuedOf("restored")) = 1
    /\ Len(handed) = 2

\* C3 (round trip): after the verdicts down, up the log of enqueued messages
\* is one "lost" then one "restored"; the restored message carries the clock
\* at the recovery minus the outage start recorded with the lost message; and
\* when the second cycle is over the outage start is None and the state is
\* connected.
C3_RoundTrip ==
    (/\ Len(verdicts) >= 2
     /\ verdicts[1] /\ ~verdicts[2]
     /\ Applied >= 2)
    => /\ Len(enqueued) >= 2
       /\ Kind(1) = "lost" /\ Kind(2) = "restored"
       /\ enqueued[1].cycle = 1 /\ enqueued[2].cycle = 2
       /\ enqueued[2].item.text.duration = <<enqueued[2].now - enqueued[1].now>>
       /\ (Len(verdicts) = 2 /\ Pos \in BetweenCycles
             => /\ Len(enqueued) = 2
                /\ outage_start_time = <<>>
                /\ was_connected)

C3_Witness ==
    /\ verdicts = <<TRUE, FALSE>>
    /\ pc = "sleep"
    /\ Len(enqueued) = 2
    /\ enqueued[2].item.text.duration = <<check_interval * TicksPerSecond>>
    /\ check_interval > 0
    /\ outage_start_time = <<>>

\* The items handed to the notifier, and those handed since the last entry
\* of send_queued_messages.
HandedItems == [j \in 1..Len(handed) |-> handed[j].item]
HandedSince ==
    [k \in 1..(Len(handed) - drain_start.handed) |->
        handed[drain_start.handed + k].item]

\* How often the message of the i-th queue_message call was handed to the
\* notifier, was delivered by it, and is in the queue.
TimesHanded(i) == Cardinality({j \in 1..Len(handed) : handed[j].item.n = i})
TimesDelivered(i) ==
    Cardinality({j \in 1..Len(handed) : handed[j].item.n = i /\ handed[j].ok})
TimesQueued(i) ==
    Cardinality({j \in 1..Len(message_queue) : message_queue[j].n = i})

\* C4 as stated (exactly-once delivery): once a recovery cycle is over, every
\* enqueued message has been delivered successfully exactly once.
C4_ExactlyOnceDelivery ==
    (Pos \in BetweenCycles /\ was_connected)
    => \A i \in 1..Len(enqueued) : TimesDelivered(i) = 1

\* C4 amended (at most once): every enqueued message is either waiting in the
\* queue or has been handed to the notifier, exactly once in all; once a
\* recovery cycle is over each has been handed over exactly once; none is
\* delivered more than once, and a failed delivery is not repeated.
C4_HandedExactlyOnce ==
    /\ \A i \in 1..Len(enqueued) :
          /\ TimesHanded(i) + TimesQueued(i) = 1
          /\ TimesDelivered(i) <= 1
    /\ (Pos \in BetweenCycles /\ was_connected)
          => \A i \in 1..Len(enqueued) : TimesHanded(i) = 1

C4_Witness ==
    /\ pc = "sleep"
    /\ was_connected
    /\ Len(handed) = 2
    /\ ~handed[1].ok
    /\ handed[2].ok
    /\ TimesDelivered(1) = 0

\* The positions of the loop outside the transition of lines 294-299.
OutsideTransition ==
    {"loop", "debounce", "retry_sleep", "record", "transition", "sleep"}

\* C5 (outage record): outside a transition, outage_start_time is set iff
\* the state is disconnected; whenever it is set, the latest "lost" message
\* was enqueued with that very time; and the step that sets it is the step
\* that enqueues the "lost" message.
C5_OutageRecord ==
    /\ [](Pos \in OutsideTransition
            => (outage_start_time # <<>> <=> ~was_connected))
    /\ [](outage_start_time # <<>>
            => \E i \in EnqueuedOf("lost") :
                  /\ enqueued[i].now = outage_start_time[1]
                  /\ \A j \in EnqueuedOf("lost") : j <= i)
    /\ [][(outage_start_time' # outage_start_time /\ outage_start_time' # <<>>)
            <=> Enqueues("lost")]_vars
    /\ [][Enqueues("lost")
            => outage_start_time' = <<enqueued'[Len(enqueued')].now>>]_vars

C5_Witness ==
    /\ pc = "debounce"
    /\ total_checks = 3
    /\ verdicts = <<TRUE, TRUE>>
    /\ ~was_connected
    /\ outage_start_time # <<>>
    /\ enqueued[1].now = outage_start_time[1]

\* C6 (message ordering): the enqueued messages alternate lost, restored,
\* lost, ... starting with lost; every "restored" message follows the "lost"
\* message of its own episode (every verdict between the two is down); and
\* the queue holds its messages in the order of their enqueueing.
C6_MessageOrdering ==
    /\ \A i \in 1..Len(enqueued) :
          /\ Kind(i) = (IF i % 2 = 1 THEN "lost" ELSE "restored")
          /\ Kind(i) = "restored"
                => /\ enqueued[i - 1].cycle < enqueued[i].cycle
                   /\ \A c \in enqueued[i - 1].cycle..(enqueued[i].cycle - 1) :
                         verdicts[c]
    /\ \A p \in 1..(Len(message_queue) - 1) :
          message_queue[p + 1].n = message_queue[p].n + 1

C6_Witness ==
    /\ pc = "drain"
    /\ Len(enqueued) = 4
    /\ Len(message_queue) = 2
    /\ message_queue[1].text.kind = "lost"
    /\ message_queue[2].text.kind = "restored"
    /\ verdicts = <<TRUE, FALSE, TRUE, FALSE>>

\* C7 (drain completeness): during a drain the messages handed over so far
\* followed by the queue are the queue the drain started with (nothing is put
\* back); when send_queued_messages has returned the queue is empty and the
\* notifier was handed each message of the starting queue once, in order,
\* whatever it answered.
C7_DrainCompleteness ==
    /\ Pos = "drain" => drain_start.queue = HandedSince \o message_queue
    /\ Pos = "set_connected"
          => /\ message_queue = <<>>
             /\ HandedSince = drain_start.queue

C7_Witness ==
    /\ pc = "set_connected"
    /\ message_queue = <<>>
    /\ Len(drain_start.queue) = 2
    /\ Len(handed) = 2
    /\ handed[1].ok
    /\ ~handed[2].ok

\* C8 (FIFO delivery): the notifier receives the messages in the order of
\* their enqueueing: the handed messages are a prefix of the enqueued ones,
\* the queue is the rest, and after a drain they are all of them.
C8_FifoDelivery ==
    /\ Len(handed) <= Len(enqueued)
    /\ \A j \in 1..Len(handed) : j <= Len(enqueued) => handed[j].item = enqueued[j].item
    /\ Pos = "set_connected" => Len(handed) = Len(enqueued)

C8_Witness ==
    /\ pc = "set_connected"
    /\ Len(handed) = 4
    /\ HandedItems = [j \in 1..4 |-> enqueued[j].item]
    /\ handed[3].item.text.kind = "lost"

\* Some delivery has failed.
FailedSomeDelivery == \E j \in 1..Len(handed) : ~handed[j].ok

\* C9 (delivery failure is local): a message whose delivery failed is out of
\* the queue and was handed over once only; no step of the drain ends the
\* loop with an exception; and when the recovering cycle is over the state is
\* connected, the outage start is None and the queue is empty.
C9_DeliveryFailureLocal ==
    /\ [](\A j \in 1..Len(handed) :
            ~handed[j].ok
               => /\ TimesQueued(handed[j].item.n) = 0
                  /\ TimesHanded(handed[j].item.n) = 1)
    /\ [](pc = "crashed" => stopped_at \notin {"drain", "set_connected"})
    /\ [][(pc = "drain" \/ pc = "set_connected") => pc' # "crashed"]_vars
    /\ [][(pc = "sleep" /\ FailedSomeDelivery) => pc' # "crashed"]_vars
    /\ []((Pos \in BetweenCycles /\ Len(enqueued) > 0
              /\ Kind(Len(enqueued)) = "restored")
            => /\ was_connected
               /\ outage_start_time = <<>>
               /\ message_queue = <<>>)

C9_Witness ==
    /\ pc = "debounce"
    /\ total_checks = 3
    /\ verdicts = <<TRUE, FALSE>>
    /\ Len(handed) = 2
    /\ ~handed[1].ok
    /\ ~handed[2].ok
    /\ api_key
    /\ was_connected
    /\ outage_start_time = <<>>
    /\ message_queue = <<>>

\* C10 (debounce correctness): when a probe of a cycle succeeds after k
\* failed ones, k below the threshold, it is the last probe of the cycle
\* (k + 1 calls, no more), retry_delay was slept k times, and the verdict of
\* the cycle is not down.
C10_DebounceCorrectness ==
    \A i \in 1..Len(probe_log) :
        probe_log[i]
           => /\ i = Len(probe_log)
              /\ i <= failure_threshold
              /\ \A j \in 1..(i - 1) : ~probe_log[j]
              /\ sleeps = i - 1
              /\ result
              /\ Len(verdicts) = total_checks
              /\ ~verdicts[Len(verdicts)]
              /\ Pos \notin {"debounce", "retry_sleep"}

C10_Witness ==
    /\ pc = "record"
    /\ failure_threshold = 2
    /\ probe_log = <<FALSE, TRUE>>
    /\ sleeps = 1
    /\ result
    /\ verdicts = <<FALSE>>

\* The current cycle has its verdict.
CycleDone == total_checks >= 1 /\ Len(verdicts) = total_checks

\* The ping calls of the current cycle all failed, n of them.
AllFailed(n) == Len(probe_log) = n /\ \A i \in 1..n : ~probe_log[i]

\* C11 (all fail): with a threshold N >= 1, a cycle whose verdict is down
\* made exactly N ping calls, all failed, and slept retry_delay N - 1 times;
\* N failed pings give the verdict down; no sleep follows the last attempt,
\* so N = 1 means one ping and no sleep.
C11_AllFail ==
    failure_threshold >= 1
    => /\ (CycleDone /\ verdicts[Len(verdicts)])
             => /\ AllFailed(failure_threshold)
                /\ sleeps = failure_threshold - 1
                /\ ~result
       /\ (CycleDone /\ AllFailed(failure_threshold)) => verdicts[Len(verdicts)]
       /\ Len(probe_log) = failure_threshold => sleeps = failure_threshold - 1
       /\ Len(probe_log) <= failure_threshold
       /\ sleeps <= failure_threshold - 1

C11_Witness ==
    /\ pc = "record"
    /\ failure_threshold = 2
    /\ probe_log = <<FALSE, FALSE>>
    /\ sleeps = 1
    /\ ~result
    /\ verdicts = <<TRUE>>

\* A configuration the loop must not run with: a threshold below 1 or a
\* negative check interval.
InvalidConfig == failure_threshold < 1 \/ check_interval < 0

\* C12 (configuration validity): under an invalid configuration the monitor
\* never starts a check cycle, never produces a verdict and never enqueues a
\* message.
C12_InvalidConfigRejected ==
    InvalidConfig
    => /\ total_checks = 0
       /\ verdicts = <<>>
       /\ enqueued = <<>>

\* The positions at which the verdict of the last cycle has been counted.
VerdictCounted ==
    {"transition", "set_disconnected", "drain", "set_connected", "sleep", "loop"}

\* The down verdicts returned so far.
DownVerdicts == {j \in 1..Len(verdicts) : verdicts[j]}

\* C13 (statistics): once M verdicts, F of them down, have been processed,
\* get_statistics reports total_checks = M, total_failures = F and
\* success_rate = (M - F) / M * 100, and success_rate = 0 when M = 0.
C13_Statistics ==
    Pos \in VerdictCounted
    => LET st == get_statistics
           M == Len(verdicts)
           F == Cardinality(DownVerdicts)
       IN  /\ st.total_checks = M
           /\ st.total_failures = F
           /\ st.success_rate.den > 0
           /\ st.success_rate.num * M = (M - F) * 100 * st.success_rate.den
           /\ M = 0 => st.success_rate.num = 0

C13_Witness ==
    /\ pc = "sleep"
    /\ verdicts = <<TRUE, FALSE, TRUE>>
    /\ get_statistics.total_checks = 3
    /\ get_statistics.total_failures = 2
    /\ get_statistics.success_rate = [num |-> 100, den |-> 3]

\* C14 (clean cancellation): when KeyboardInterrupt has ended the loop, it
\* did so between two cycles: every started cycle is fully processed
\* (total_checks is the number of verdicts, total_failures the number of
\* down verdicts) and outage_start_time is set iff the state is disconnected.
C14_CleanCancellation ==
    pc = "stopped"
    => /\ stopped_at \in BetweenCycles
       /\ total_checks = Len(verdicts)
       /\ total_failures = Cardinality(DownVerdicts)
       /\ (outage_start_time # <<>> <=> ~was_connected)

\* The "lost" messages enqueued in the current cycle.
LostThisCycle == {i \in EnqueuedOf("lost") : enqueued[i].cycle = total_checks}

DownDownUp == <<TRUE, TRUE, FALSE>>

\* Cycle n of the scenario is over and cycle n + 1 has not started.
EndOfCycle(n) ==
    /\ failure_threshold = 2
    /\ retry_delay = 0
    /\ Pos \in BetweenCycles
    /\ total_checks = n
    /\ verdicts = SubSeq(DownDownUp, 1, n)

\* C16 (end-to-end scenario): with threshold 2 and retry_delay 0 and the
\* verdicts down, down, up: after cycle 1 the state is Disconnected and the
\* queue holds one "lost" message; cycle 2 changes only the counters; after
\* cycle 3 the state is Connected, a "restored" message with the duration of
\* two check intervals was enqueued, the notifier was handed "lost" then
\* "restored", the queue is empty, total_checks = 3 and total_failures = 2.
C16_DownDownUp ==
    /\ \A n \in 1..2 :
         EndOfCycle(n)
         => /\ ~was_connected
            /\ Len(enqueued) = 1
            /\ Kind(1) = "lost"
            /\ enqueued[1].cycle = 1
            /\ message_queue = <<enqueued[1].item>>
            /\ outage_start_time = <<enqueued[1].now>>
            /\ handed = <<>>
            /\ total_failures = n
    /\ EndOfCycle(3)
         => /\ was_connected
            /\ Len(enqueued) = 2
            /\ Kind(1) = "lost"
            /\ Kind(2) = "restored"
            /\ enqueued[2].cycle = 3
            /\ enqueued[2].item.text.duration
                 = <<2 * check_interval * TicksPerSecond>>
            /\ HandedItems = <<enqueued[1].item, enqueued[2].item>>
            /\ message_queue = <<>>
            /\ outage_start_time = <<>>
            /\ total_failures = 2

C16_Witness ==
    /\ EndOfCycle(3)
    /\ pc = "sleep"
    /\ check_interval = 1
    /\ Len(handed) = 2
    /\ handed[1].item.text.kind = "lost"
    /\ handed[2].item.text.kind = "restored"

\* The cycle, among the first n, that started the latest run of down verdicts.
RunStart(n) ==
    CHOOSE k \in OutageStarts(n) : \A m \in OutageStarts(n) : m <= k

\* C17 (repeated verdicts are no-ops): the transition step of a verdict equal
\* to the current state leaves the state, the outage start and the queue
\* unchanged; messages are enqueued only in cycles whose verdict differs from
\* the one before; the outage start, while set, is the time of the first
\* down verdict of the current run; and the duration in a "restored"
\* message is measured from the first down verdict of the run it ends.
C17_RepeatedVerdictsNoOp ==
    /\ [][(pc = "transition" /\ result = was_connected)
            => UNCHANGED <<was_connected, outage_start_time, message_queue,
                           enqueued, handed>>]_vars
    /\ [](\A i \in 1..Len(enqueued) :
            enqueued[i].cycle \in OutageStarts(Len(verdicts))
                                    \cup Recoveries(Len(verdicts)))
    /\ [](outage_start_time # <<>>
            => /\ OutageStarts(Len(verdicts)) # {}
               /\ \E l \in EnqueuedOf("lost") :
                    /\ enqueued[l].cycle = RunStart(Len(verdicts))
                    /\ outage_start_time = <<enqueued[l].now>>)
    /\ [](\A i \in EnqueuedOf("restored") :
            \E l \in EnqueuedOf("lost") :
                /\ enqueued[l].cycle = RunStart(enqueued[i].cycle)
                /\ enqueued[i].item.text.duration
                     = <<enqueued[i].now - enqueued[l].now>>)

C17_Witness ==
    /\ verdicts = <<TRUE, TRUE, TRUE, FALSE>>
    /\ pc = "sleep"
    /\ check_interval = 1
    /\ Len(enqueued) = 2
    /\ enqueued[1].cycle = 1
    /\ enqueued[2].cycle = 4
    /\ enqueued[2].item.text.duration = <<enqueued[2].now - enqueued[1].now>>
    /\ enqueued[2].now - enqueued[1].now >= 3 * TicksPerSecond

\* C18 (additive counters): no step decreases total_checks or
\* total_failures, and each step adds at most 1; total_checks is the number
\* of cycles started (one more than the verdicts while a cycle is in its
\* debounce loop), total_failures is the number of down verdicts counted
\* (one less than the down verdicts until line 290 has run), and
\* 0 <= total_failures <= total_checks at every position of the loop.
C18_CountersAdditive ==
    /\ [][/\ total_checks' \in {total_checks, total_checks + 1}
          /\ total_failures' \in {total_failures, total_failures + 1}
          /\ total_checks' # total_checks => pc = "loop"
          /\ total_failures' # total_failures => pc = "record"]_vars
    /\ [](total_checks - Len(verdicts) \in {0, 1})
    /\ [](Cardinality(DownVerdicts) - total_failures \in {0, 1})
    /\ [](0 <= total_failures /\ total_failures <= total_checks)

C18_Witness ==
    /\ pc = "record"
    /\ ~result
    /\ verdicts = <<TRUE, TRUE>>
    /\ total_checks = 2
    /\ total_failures = 1

\* C19 (defensive recovery): a call of handle_recovery made while
\* outage_start_time is None does not fail; it enqueues a "restored" message
\* without a duration at the tail of the queue, hands every message of the
\* queue to the notifier until the queue is empty, and returns with
\* outage_start_time still None.
C19_DefensiveRecovery ==
    /\ [][((pc = "call" \/ pc = "set_connected") /\ pc' = "drain"
              /\ outage_start_time = <<>>)
            => /\ Enqueues("restored")
               /\ enqueued'[Len(enqueued')].item.text.duration = <<>>
               /\ message_queue'
                    = Append(message_queue, enqueued'[Len(enqueued')].item)
               /\ outage_start_time' = <<>>]_vars
    /\ [][(pc = "drain" /\ outage_start_time = <<>>)
            => /\ pc' = "drain" \/ pc' = "set_connected"
               /\ outage_start_time' = <<>>
               /\ pc' = "set_connected"
                    => /\ message_queue' = <<>>
                       /\ HandedSince' = drain_start.queue]_vars

C19_Witness ==
    /\ pc = "set_connected"
    /\ Len(enqueued) = 1
    /\ Kind(1) = "restored"
    /\ enqueued[1].item.text.duration = <<>>
    /\ HandedItems = <<enqueued[1].item>>
    /\ message_queue = <<>>
    /\ outage_start_time = <<>>

\* C20 (notifier result): a call of send_notification returns True exactly
\* when an API key is configured and the response has status 200; without
\* an API key it makes no HTTP request and returns False; for any other
\* status, a timeout or an exception of the request it returns False; it
\* never raises.
C20_NotifierResult ==
    returned.called
    => /\ returned.ok <=> (returned.key /\ returned.response = "200")
       /\ ~returned.key
            => ~returned.http /\ ~returned.ok /\ returned.response = "no_request"
       /\ returned.key => returned.http
       /\ returned.response \in Responses \ {"200"} => ~returned.ok
       /\ ~returned.raised
       /\ pc # "crashed"

C20_Witness ==
    /\ returned.called
    /\ returned.key
    /\ returned.response = "timeout"
    /\ ~returned.ok
    /\ pc = "call"

\* The loop was left.
Ended == pc = "stopped" \/ pc = "crashed"

\* C21 (the loop never stops on its own): the loop is running, or was left
\* by a KeyboardInterrupt, or by the ValueError of a time.sleep with a
\* negative argument; the debouncer makes at most failure_threshold pings;
\* unless the loop is left, cycle follows cycle: every run reaches the head
\* of the loop with MaxChecks cycles completed.
C21_LoopNeverStops ==
    /\ [](pc \in LoopPositions \/ Ended)
    /\ [](pc = "crashed"
            => \/ stopped_at = "retry_sleep" /\ retry_delay < 0
               \/ stopped_at = "sleep" /\ check_interval < 0)
    /\ [](Len(probe_log) <= failure_threshold)
    /\ <>(Ended \/ (pc = "loop" /\ total_checks = MaxChecks))

C21_Witness ==
    /\ pc = "debounce"
    /\ total_checks = MaxChecks
    /\ failure_threshold = MaxThreshold
    /\ Len(handed) >= 2
    /\ \E j \in 1..Len(handed) : ~handed[j].ok

\* C22 (bounded queue): between two cycles the queue is empty when the
\* state is Connected and holds exactly the "lost" message of the current
\* run of down verdicts when the state is Disconnected; at every position
\* the queue holds at most two messages.
C22_BoundedQueue ==
    /\ Len(message_queue) <= 2
    /\ Pos \in BetweenCycles
         => /\ was_connected => message_queue = <<>>
            /\ ~was_connected
                 => /\ OutageStarts(Len(verdicts)) # {}
                    /\ \E l \in EnqueuedOf("lost") :
                         /\ enqueued[l].cycle = RunStart(Len(verdicts))
                         /\ message_queue = <<enqueued[l].item>>

C22_Witness ==
    /\ pc = "sleep"
    /\ ~was_connected
    /\ verdicts = <<TRUE, FALSE, TRUE>>
    /\ Len(enqueued) = 3
    /\ message_queue = <<enqueued[3].item>>
    /\ Len(handed) = 2

\* No verdict from cycle c on is a not-down verdict.
DownSince(c) == \A j \in c..Len(verdicts) : verdicts[j]

\* C23 (delivery only on recovery): send_notification is called only in the
\* drain of a recovery, i.e. in a cycle whose not-down verdict follows a down
\* verdict, before was_connected is set; the message handed over is the head
\* of the queue; and a "lost" message is handed over zero times as long as
\* no not-down verdict has followed it, also after the loop was left.
C23_DeliveryOnlyOnRecovery ==
    /\ [][handed' # handed
            => /\ pc = "drain"
               /\ pc' = "drain"
               /\ result
               /\ ~was_connected
               /\ total_checks \in Recoveries(Len(verdicts))
               /\ Len(handed') = Len(handed) + 1
               /\ handed'[Len(handed')].item = Head(message_queue)]_vars
    /\ [](\A l \in EnqueuedOf("lost") :
            DownSince(enqueued[l].cycle) => TimesHanded(l) = 0)
    /\ []((handed # <<>>) => Recoveries(Len(verdicts)) # {})

C23_Witness ==
    /\ pc = "stopped"
    /\ stopped_at = "sleep"
    /\ ~was_connected
    /\ verdicts = <<TRUE, FALSE, TRUE, TRUE>>
    /\ Len(enqueued) = 3
    /\ message_queue = <<enqueued[3].item>>
    /\ TimesHanded(1) = 1
    /\ TimesHanded(3) = 0

\* The cycle in progress, or just completed, is a recovery and its
\* transition is over.
RecoveryOver ==
    /\ Pos = "sleep"
    /\ total_checks \in Recoveries(Len(verdicts))

\* C24 (eventual hand-over): unless the loop is left, a recovery that has
\* started reaches the sleep at the end of its cycle; there the last two
\* messages handed to the notifier are the "lost" message of the run of down
\* verdicts just ended and the "restored" message of this cycle, in that
\* order, both handed over in this cycle, and the queue is empty; it is
\* still empty when the next cycle starts its first ping.
C24_EventualHandOver ==
    /\ (pc = "transition" /\ result /\ ~was_connected) ~> (pc = "sleep" \/ Ended)
    /\ [](RecoveryOver
            => /\ message_queue = <<>>
               /\ Len(handed) >= 2
               /\ Len(handed) = drain_start.handed + 2
               /\ LET lost == handed[Len(handed) - 1].item
                      restored == handed[Len(handed)].item
                  IN  /\ lost.text.kind = "lost"
                      /\ restored.text.kind = "restored"
                      /\ enqueued[lost.n].item = lost
                      /\ enqueued[restored.n].item = restored
                      /\ enqueued[lost.n].cycle = RunStart(total_checks)
                      /\ enqueued[restored.n].cycle = total_checks)
    /\ []((pc = "debounce" /\ was_connected) => message_queue = <<>>)

C24_Witness ==
    /\ RecoveryOver
    /\ pc = "sleep"
    /\ verdicts = <<FALSE, TRUE, FALSE>>
    /\ failure_threshold = MaxThreshold
    /\ Len(handed) = 2
    /\ ~handed[1].ok
    /\ handed[2].ok
    /\ message_queue = <<>>

====
